---- MODULE Spec2Model ----
(***************************************************************************)
(* Model of userportal/common.py: the four authorization decorators, the   *)
(* allocation lookups over the LDAP directory and the Prometheus client    *)
(* wrapper.                                                                *)
(*                                                                         *)
(* Strings whose characters the code inspects (allocation and account      *)
(* names) are sequences of one-character strings; usernames, which the     *)
(* code only compares, are plain strings.                                  *)
(***************************************************************************)
EXTENDS Integers, Sequences, FiniteSets, TLC

VARIABLES
    ldap,       \* the directory: a sequence of LdapAllocation records
    prom,       \* the series held by the Prometheus backend
    now,        \* the wall clock read by datetime.now()
    op,         \* the operation that ran last ("idle" after the environment moved)
    request,    \* the inputs of that operation
    response,   \* what it returned or raised
    calls,      \* the invocations of the wrapped view made by that operation
    queries     \* the directory or backend queries issued by that operation

vars == <<ldap, prom, now, op, request, response, calls, queries>>

(***************************************************************************)
(* Bounds of the model.                                                    *)
(***************************************************************************)
MaxDir == 2         \* allocation records in the directory
MaxSeries == 2      \* series held by the backend
MaxPoints == 2      \* samples per series
MaxTime == 2        \* clock values

(***************************************************************************)
(* Python string methods, on sequences of characters.                      *)
(***************************************************************************)
\* s[i:] for a 1-based i
Drop(s, i) == SubSeq(s, i, Len(s))

\* the least index of character c in s, 0 when absent (str.find + 1)
RECURSIVE FindFrom(_, _, _)
FindFrom(s, c, i) ==
    IF i > Len(s) THEN 0
    ELSE IF s[i] = c THEN i
    ELSE FindFrom(s, c, i + 1)

\* s.split(c): the pieces of s between the occurrences of c
RECURSIVE Split(_, _)
Split(s, c) ==
    LET i == FindFrom(s, c, 1)
    IN  IF i = 0 THEN <<s>>
        ELSE <<SubSeq(s, 1, i - 1)>> \o Split(Drop(s, i + 1), c)

\* s.rstrip(chars): drop trailing characters while they belong to chars
RECURSIVE RStrip(_, _)
RStrip(s, chars) ==
    IF Len(s) > 0 /\ s[Len(s)] \in chars
    THEN RStrip(SubSeq(s, 1, Len(s) - 1), chars)
    ELSE s

StartsWith(s, prefix) ==
    Len(s) >= Len(prefix) /\ SubSeq(s, 1, Len(prefix)) = prefix

EndsWith(s, suffix) ==
    Len(s) >= Len(suffix) /\ SubSeq(s, Len(s) - Len(suffix) + 1, Len(s)) = suffix

(***************************************************************************)
(* String literals of the source.                                          *)
(***************************************************************************)
Underscore == "_"
DefPrefix == <<"d", "e", "f", "-">>
GpuSuffix == <<"_", "g", "p", "u">>
CpuSuffix == <<"_", "c", "p", "u">>
Active == "active"

(***************************************************************************)
(* Input domains.                                                          *)
(***************************************************************************)
Users == {"alice", "bob"}

AllocNames == { DefPrefix \o <<"a">>, DefPrefix \o <<"c">>, <<"r", "g", "-", "u">> }

Suffixes == { <<>>, GpuSuffix, CpuSuffix }

\* account identifiers handed to the views and to the slurm lookup
Accounts == { n \o s : n \in AllocNames \cup {<<>>}, s \in Suffixes }

Statuses == { Active, "expired" }

PositionalArgs == { <<>>, <<"json">> }

(***************************************************************************)
(* The directory: LdapAllocation.objects.filter with keyword criteria.      *)
(***************************************************************************)
Matches(alloc, criteria) ==
    \A k \in DOMAIN criteria :
        IF k = "members" THEN criteria[k] \in alloc.members
        ELSE alloc[k] = criteria[k]

Filter(dir, criteria) == SelectSeq(dir, LAMBDA alloc : Matches(alloc, criteria))

(***************************************************************************)
(* Outcomes of a wrapped view.                                             *)
(***************************************************************************)
HttpResponseNotFound == [kind |-> "http", status_code |-> 404]
HttpResponseForbidden == [kind |-> "http", status_code |-> 403]

Raised(exc) == [kind |-> "raise", exc |-> exc]

\* the response of the wrapped view: opaque, determined by what it was given
FuncResponse(req, args, kwargs) ==
    [kind |-> "view", request |-> req, args |-> args, kwargs |-> kwargs]

\* return func(request, *args, **kwargs)
CallFunc(req, args, kwargs, qs) ==
    [response |-> FuncResponse(req, args, kwargs),
     calls |-> << [request |-> req, args |-> args, kwargs |-> kwargs] >>,
     queries |-> qs]

\* return HttpResponseNotFound()
NotFound(qs) == [response |-> HttpResponseNotFound, calls |-> <<>>, queries |-> qs]

Raise(exc, qs) == [response |-> Raised(exc), calls |-> <<>>, queries |-> qs]

(***************************************************************************)
(* The decorators.                                                         *)
(***************************************************************************)
\* user_or_staff without its first branch: the subject user is not let through
user_or_staff_StaffOnly(req, args, kwargs) ==
    IF req.META.is_staff
    THEN CallFunc(req, args, kwargs, <<>>)
    ELSE NotFound(<<>>)

user_or_staff(req, args, kwargs) ==
    IF req.META.username = kwargs.username
    THEN CallFunc(req, args, kwargs, <<>>)
    ELSE IF req.META.is_staff
    THEN CallFunc(req, args, kwargs, <<>>)
    ELSE NotFound(<<>>)

\* account_or_staff answering forbidden when the allocation exists without the user
account_or_staff_Forbidden(dir, req, args, kwargs) ==
    LET alloc_name == Split(kwargs.account, Underscore)[1]
        criteria == [name |-> alloc_name,
                     members |-> req.META.username,
                     status |-> Active]
        found == Filter(dir, criteria)
        named == Filter(dir, [name |-> alloc_name, status |-> Active])
    IN  IF req.META.is_staff
        THEN CallFunc(req, args, kwargs, <<>>)
        ELSE IF Len(found) = 0
        THEN [response |-> IF Len(named) = 0 THEN HttpResponseNotFound
                           ELSE HttpResponseForbidden,
              calls |-> <<>>, queries |-> <<criteria>>]
        ELSE IF Len(found) > 1
        THEN Raise("MultipleObjectsReturned", <<criteria>>)
        ELSE CallFunc(req, args, kwargs, <<criteria>>)

account_or_staff(dir, req, args, kwargs) ==
    LET alloc_name == Split(kwargs.account, Underscore)[1]
        criteria == [name |-> alloc_name,
                     members |-> req.META.username,
                     status |-> Active]
        found == Filter(dir, criteria)
    IN  IF req.META.is_staff
        THEN CallFunc(req, args, kwargs, <<>>)
        ELSE IF Len(found) = 0
        THEN NotFound(<<criteria>>)                         \* DoesNotExist
        ELSE IF Len(found) > 1
        THEN Raise("MultipleObjectsReturned", <<criteria>>) \* not caught
        ELSE CallFunc(req, args, kwargs, <<criteria>>)

openstackproject_or_staff(req, args, kwargs) ==
    IF req.META.is_staff
    THEN CallFunc(req, args, kwargs, <<>>)
    ELSE NotFound(<<>>)                                     \* TODO search in LDAP

\* staff with the own-info branch of user_or_staff
staff_OrOwnUser(req, args, kwargs) ==
    IF req.META.username = kwargs.username
    THEN CallFunc(req, args, kwargs, <<>>)
    ELSE IF req.META.is_staff
    THEN CallFunc(req, args, kwargs, <<>>)
    ELSE NotFound(<<>>)

staff(req, args, kwargs) ==
    IF req.META.is_staff
    THEN CallFunc(req, args, kwargs, <<>>)
    ELSE NotFound(<<>>)

(***************************************************************************)
(* Allocation lookups.                                                     *)
(***************************************************************************)
\* Optional values: None is the empty sequence, a value v is <<v>>.
None == <<>>
Some(v) == <<v>>

Returned(v, qs) == [response |-> [kind |-> "return", value |-> v],
                    calls |-> <<>>, queries |-> qs]

\* ccldap.common.convert_ldap_to_allocation: one summary per record, carrying
\* the record's name and the quota fields ('cpu', 'gpu') the record holds
RECURSIVE convert_ldap_to_allocation(_)
convert_ldap_to_allocation(allocations) ==
    IF allocations = <<>> THEN <<>>
    ELSE <<[name |-> Head(allocations).name] @@ Head(allocations).resources>>
         \o convert_ldap_to_allocation(Tail(allocations))

compute_allocations_by_user(dir, username) ==
    LET criteria == [members |-> username, status |-> Active]
    IN  Returned(convert_ldap_to_allocation(Filter(dir, criteria)), <<criteria>>)

compute_allocation_by_account(dir, account) ==
    LET criteria == [name |-> account, status |-> Active]
    IN  Returned(convert_ldap_to_allocation(Filter(dir, criteria)), <<criteria>>)

\* the loop of compute_default_allocation_by_user over the filtered records
RECURSIVE DefaultNames(_)
DefaultNames(allocations) ==
    IF allocations = <<>> THEN <<>>
    ELSE (IF StartsWith(Head(allocations).name, DefPrefix)
          THEN <<Head(allocations).name>> ELSE <<>>)
         \o DefaultNames(Tail(allocations))

\* compute_default_allocation_by_user without the status criterion
compute_default_allocation_by_user_AnyStatus(dir, username) ==
    LET criteria == [members |-> username]
    IN  Returned(DefaultNames(Filter(dir, criteria)), <<criteria>>)

compute_default_allocation_by_user(dir, username) ==
    LET criteria == [members |-> username, status |-> Active]
    IN  Returned(DefaultNames(Filter(dir, criteria)), <<criteria>>)

\* for alloc in allocations: if field in alloc: return alloc[field]
RECURSIVE FirstField(_, _)
FirstField(allocations, field) ==
    IF allocations = <<>> THEN None
    ELSE IF field \in DOMAIN Head(allocations)
    THEN Some(Head(allocations)[field])
    ELSE FirstField(Tail(allocations), field)

\* account.rstrip('_gpu').rstrip('_cpu'): both arguments are character sets
SlurmAccountName(account) ==
    RStrip(RStrip(account, {"_", "g", "p", "u"}), {"_", "c", "p", "u"})

\* compute_allocations_by_slurm_account testing the stripped name for the suffix
compute_allocations_by_slurm_account_StrippedTest(dir, account) ==
    LET account_name == SlurmAccountName(account)
        inner == compute_allocation_by_account(dir, account_name)
        allocations == inner.response.value
    IN  IF EndsWith(account_name, GpuSuffix)
        THEN Returned(FirstField(allocations, "gpu"), inner.queries)
        ELSE Returned(FirstField(allocations, "cpu"), inner.queries)

compute_allocations_by_slurm_account(dir, account) ==
    LET account_name == SlurmAccountName(account)
        inner == compute_allocation_by_account(dir, account_name)
        allocations == inner.response.value
    IN  IF EndsWith(account, GpuSuffix)
        THEN Returned(FirstField(allocations, "gpu"), inner.queries)
        ELSE Returned(FirstField(allocations, "cpu"), inner.queries)

(***************************************************************************)
(* The Prometheus client wrapper.                                          *)
(***************************************************************************)
Queries == {"up", "load"}

\* sample values as the backend sends them, and float() of each, in tenths
SampleStrings == {"0", "1.5"}
float(s) == IF s = "0" THEN 0 ELSE 15

\* datetime.fromtimestamp(t)
fromtimestamp(t) == [datetime |-> t]

\* PrometheusConnect.custom_query_range: the series selected by the query,
\* cut to the samples of [start_time, end_time]; a series left empty is absent
InRange(values, start_time, end_time) ==
    SelectSeq(values, LAMBDA x : start_time <= x[1] /\ x[1] <= end_time)

custom_query_range(backend, query, start_time, end_time, step) ==
    LET cut(line) == [metric |-> line.metric,
                      values |-> InRange(line.values, start_time, end_time)]
        RECURSIVE each(_)
        each(lines) ==
            IF lines = <<>> THEN <<>>
            ELSE (IF Head(lines).metric.name = query /\ cut(Head(lines)).values # <<>>
                  THEN <<cut(Head(lines))>> ELSE <<>>)
                 \o each(Tail(lines))
    IN  each(backend)

\* PrometheusConnect.custom_query: the series selected by the query
custom_query(backend, query) ==
    SelectSeq(backend, LAMBDA line : line.metric.name = query)

\* the loop of query_prometheus_multiple over the returned lines
RECURSIVE ReturnList(_)
ReturnList(q) ==
    IF q = <<>> THEN <<>>
    ELSE << [metric |-> Head(q).metric,
             x |-> [i \in 1..Len(Head(q).values) |-> fromtimestamp(Head(q).values[i][1])],
             y |-> [i \in 1..Len(Head(q).values) |-> float(Head(q).values[i][2])]] >>
         \o ReturnList(Tail(q))

query_prometheus_multiple(backend, clock, query, start, end, step) ==
    LET end_time == IF end = None THEN clock ELSE end[1]
        call == [query |-> query, start_time |-> start,
                 end_time |-> end_time, step |-> step]
        q == custom_query_range(backend, query, start, end_time, step)
    IN  Returned(ReturnList(q), <<call>>)

\* query_prometheus without the length check, answering empty sequences
query_prometheus_Unchecked(backend, clock, query, duration, end, step) ==
    LET inner == query_prometheus_multiple(backend, clock, query, duration, end, step)
        values == inner.response.value
    IN  IF Len(values) = 0
        THEN Returned(<< <<>>, <<>> >>, inner.queries)
        ELSE Returned(<<values[1].x, values[1].y>>, inner.queries)

query_prometheus(backend, clock, query, duration, end, step) ==
    LET inner == query_prometheus_multiple(backend, clock, query, duration, end, step)
        values == inner.response.value
    IN  IF Len(values) = 0
        THEN Raise("ValueError", inner.queries)
        ELSE Returned(<<values[1].x, values[1].y>>, inner.queries)

query_last(backend, query) ==
    Returned(custom_query(backend, query), <<[query |-> query]>>)

(***************************************************************************)
(* State machine.  The module keeps no state of its own: the state is the  *)
(* directory, the backend and the clock it reads, and what the last        *)
(* operation was given and gave back.                                      *)
(***************************************************************************)
Idle == [kind |-> "idle"]

Init ==
    /\ ldap = <<>>
    /\ prom = <<>>
    /\ now = 1
    /\ op = "idle"
    /\ request = Idle
    /\ response = Idle
    /\ calls = <<>>
    /\ queries = <<>>

\* the caller takes the outcome of the last operation
Return ==
    /\ op # "idle"
    /\ op' = "idle"
    /\ request' = Idle
    /\ response' = Idle
    /\ calls' = <<>>
    /\ queries' = <<>>
    /\ UNCHANGED <<ldap, prom, now>>

(***************************************************************************)
(* Environment: the directory, the backend and the clock change between    *)
(* operations.                                                             *)
(***************************************************************************)
NoResources == [field \in {} |-> 0]

\* records as the membership checks see them
MemberRecords ==
    [name : AllocNames, members : SUBSET Users, status : Statuses,
     resources : {NoResources}]

CpuQuotas == {10, 20}
GpuQuotas == {1, 2}

ResourceSets ==
    {NoResources}
    \cup {[cpu |-> c] : c \in CpuQuotas}
    \cup {[gpu |-> g] : g \in GpuQuotas}
    \cup {[cpu |-> c, gpu |-> g] : c \in CpuQuotas, g \in GpuQuotas}

\* records as the quota lookups see them
QuotaRecords ==
    [name : AllocNames, members : {{"alice"}}, status : Statuses,
     resources : ResourceSets]

LdapAddMember ==
    /\ op = "idle"
    /\ Len(ldap) < MaxDir
    /\ \E alloc \in MemberRecords : ldap' = Append(ldap, alloc)
    /\ UNCHANGED <<prom, now, op, request, response, calls, queries>>

LdapAddQuota ==
    /\ op = "idle"
    /\ Len(ldap) < MaxDir
    /\ \E alloc \in QuotaRecords : ldap' = Append(ldap, alloc)
    /\ UNCHANGED <<prom, now, op, request, response, calls, queries>>

\* a series of samples taken at times 1, 2, ...
SampleSeqs == UNION { [1..n -> SampleStrings] : n \in 1..MaxPoints }

Series ==
    { [metric |-> [name |-> m],
       values |-> [i \in 1..Len(samples) |-> <<i, samples[i]>>]] :
      m \in Queries, samples \in SampleSeqs }

PromAdd ==
    /\ op = "idle"
    /\ Len(prom) < MaxSeries
    /\ \E line \in Series : prom' = Append(prom, line)
    /\ UNCHANGED <<ldap, now, op, request, response, calls, queries>>

Tick ==
    /\ op = "idle"
    /\ now < MaxTime
    /\ now' = now + 1
    /\ UNCHANGED <<ldap, prom, op, request, response, calls, queries>>

(***************************************************************************)
(* The views behind the decorators.                                        *)
(***************************************************************************)
Metas == [username : Users, is_staff : BOOLEAN]

ViewInputs(meta, args, kwargs) ==
    [request |-> [META |-> meta], args |-> args, kwargs |-> kwargs]

UserOrStaffRequest ==
    /\ op = "idle"
    /\ \E meta \in Metas, args \in PositionalArgs, username \in Users :
        LET kwargs == [username |-> username]
            outcome == user_or_staff([META |-> meta], args, kwargs)
        IN  /\ op' = "user_or_staff"
            /\ request' = ViewInputs(meta, args, kwargs)
            /\ response' = outcome.response
            /\ calls' = outcome.calls
            /\ queries' = outcome.queries
    /\ UNCHANGED <<ldap, prom, now>>

AccountOrStaffRequest ==
    /\ op = "idle"
    /\ \E meta \in Metas, args \in PositionalArgs, account \in Accounts :
        LET kwargs == [account |-> account]
            outcome == account_or_staff(ldap, [META |-> meta], args, kwargs)
        IN  /\ op' = "account_or_staff"
            /\ request' = ViewInputs(meta, args, kwargs)
            /\ response' = outcome.response
            /\ calls' = outcome.calls
            /\ queries' = outcome.queries
    /\ UNCHANGED <<ldap, prom, now>>

OpenstackProjectOrStaffRequest ==
    /\ op = "idle"
    /\ \E meta \in Metas, args \in PositionalArgs, project \in AllocNames :
        LET kwargs == [project |-> project]
            outcome == openstackproject_or_staff([META |-> meta], args, kwargs)
        IN  /\ op' = "openstackproject_or_staff"
            /\ request' = ViewInputs(meta, args, kwargs)
            /\ response' = outcome.response
            /\ calls' = outcome.calls
            /\ queries' = outcome.queries
    /\ UNCHANGED <<ldap, prom, now>>

StaffRequest ==
    /\ op = "idle"
    /\ \E meta \in Metas, args \in PositionalArgs, username \in Users :
        LET kwargs == [username |-> username]
            outcome == staff([META |-> meta], args, kwargs)
        IN  /\ op' = "staff"
            /\ request' = ViewInputs(meta, args, kwargs)
            /\ response' = outcome.response
            /\ calls' = outcome.calls
            /\ queries' = outcome.queries
    /\ UNCHANGED <<ldap, prom, now>>

(***************************************************************************)
(* The lookups.                                                            *)
(***************************************************************************)
ComputeAllocationsByUser ==
    /\ op = "idle"
    /\ \E username \in Users :
        LET outcome == compute_allocations_by_user(ldap, username)
        IN  /\ op' = "compute_allocations_by_user"
            /\ request' = [username |-> username]
            /\ response' = outcome.response
            /\ calls' = outcome.calls
            /\ queries' = outcome.queries
    /\ UNCHANGED <<ldap, prom, now>>

ComputeDefaultAllocationByUser ==
    /\ op = "idle"
    /\ \E username \in Users :
        LET outcome == compute_default_allocation_by_user(ldap, username)
        IN  /\ op' = "compute_default_allocation_by_user"
            /\ request' = [username |-> username]
            /\ response' = outcome.response
            /\ calls' = outcome.calls
            /\ queries' = outcome.queries
    /\ UNCHANGED <<ldap, prom, now>>

ComputeAllocationByAccount ==
    /\ op = "idle"
    /\ \E account \in AllocNames :
        LET outcome == compute_allocation_by_account(ldap, account)
        IN  /\ op' = "compute_allocation_by_account"
            /\ request' = [account |-> account]
            /\ response' = outcome.response
            /\ calls' = outcome.calls
            /\ queries' = outcome.queries
    /\ UNCHANGED <<ldap, prom, now>>

ComputeAllocationsBySlurmAccount ==
    /\ op = "idle"
    /\ \E account \in Accounts :
        LET outcome == compute_allocations_by_slurm_account(ldap, account)
        IN  /\ op' = "compute_allocations_by_slurm_account"
            /\ request' = [account |-> account]
            /\ response' = outcome.response
            /\ calls' = outcome.calls
            /\ queries' = outcome.queries
    /\ UNCHANGED <<ldap, prom, now>>

(***************************************************************************)
(* The Prometheus queries.                                                 *)
(***************************************************************************)
Times == 1..MaxTime
DefaultStep == "3m"

QueryPrometheus ==
    /\ op = "idle"
    /\ \E query \in Queries, end \in {None} \cup {Some(t) : t \in Times} :
        LET outcome == query_prometheus(prom, now, query, 1, end, DefaultStep)
        IN  /\ op' = "query_prometheus"
            /\ request' = [query |-> query, duration |-> 1, end |-> end]
            /\ response' = outcome.response
            /\ calls' = outcome.calls
            /\ queries' = outcome.queries
    /\ UNCHANGED <<ldap, prom, now>>

QueryPrometheusMultiple ==
    /\ op = "idle"
    /\ \E query \in Queries, end \in {None} \cup {Some(t) : t \in Times} :
        LET outcome == query_prometheus_multiple(prom, now, query, 1, end, DefaultStep)
        IN  /\ op' = "query_prometheus_multiple"
            /\ request' = [query |-> query, start |-> 1, end |-> end]
            /\ response' = outcome.response
            /\ calls' = outcome.calls
            /\ queries' = outcome.queries
    /\ UNCHANGED <<ldap, prom, now>>

QueryLast ==
    /\ op = "idle"
    /\ \E query \in Queries :
        LET outcome == query_last(prom, query)
        IN  /\ op' = "query_last"
            /\ request' = [query |-> query]
            /\ response' = outcome.response
            /\ calls' = outcome.calls
            /\ queries' = outcome.queries
    /\ UNCHANGED <<ldap, prom, now>>

(***************************************************************************)
(* Specifications: the views and lookups keyed by membership, the quota    *)
(* lookups keyed by account, and the Prometheus wrapper.                   *)
(***************************************************************************)
NextMembers ==
    \/ LdapAddMember
    \/ UserOrStaffRequest
    \/ AccountOrStaffRequest
    \/ OpenstackProjectOrStaffRequest
    \/ StaffRequest
    \/ ComputeAllocationsByUser
    \/ ComputeDefaultAllocationByUser
    \/ Return

SpecMembers == Init /\ [][NextMembers]_vars

NextQuota ==
    \/ LdapAddQuota
    \/ ComputeAllocationByAccount
    \/ ComputeAllocationsBySlurmAccount
    \/ Return

SpecQuota == Init /\ [][NextQuota]_vars

NextProm ==
    \/ PromAdd
    \/ Tick
    \/ QueryPrometheus
    \/ QueryPrometheusMultiple
    \/ QueryLast
    \/ Return

SpecProm == Init /\ [][NextProm]_vars

(***************************************************************************)
(* Vocabulary of the properties, stated on the directory and the inputs    *)
(* without the operators above.                                            *)
(***************************************************************************)
Decorators == {"user_or_staff", "account_or_staff", "openstackproject_or_staff", "staff"}

Invoked == calls # <<>>

\* the part of s before its first '_' (all of s when it has none)
BeforeUnderscore(s) ==
    LET clean == { k \in 0..Len(s) : \A i \in 1..k : s[i] # "_" }
    IN  SubSeq(s, 1, CHOOSE k \in clean : \A j \in clean : j <= k)

\* the active records of dir called name that list user as a member
Memberships(dir, name, user) ==
    { i \in 1..Len(dir) :
        dir[i].status = "active" /\ dir[i].name = name /\ user \in dir[i].members }

\* the three directories that hide the allocation called name from user:
\* it does not exist, it is not active, it does not list the user
Hidden(dir, name, user) ==
    { SelectSeq(dir, LAMBDA a : a.name # name),
      [i \in 1..Len(dir) |->
          IF dir[i].name = name THEN [dir[i] EXCEPT !.status = "expired"] ELSE dir[i]],
      [i \in 1..Len(dir) |->
          IF dir[i].name = name THEN [dir[i] EXCEPT !.members = @ \ {user}] ELSE dir[i]] }

EndsInGpu(s) ==
    Len(s) >= 4 /\ s[Len(s) - 3] = "_" /\ s[Len(s) - 2] = "g"
                /\ s[Len(s) - 1] = "p" /\ s[Len(s)] = "u"

EndsInCpu(s) ==
    Len(s) >= 4 /\ s[Len(s) - 3] = "_" /\ s[Len(s) - 2] = "c"
                /\ s[Len(s) - 1] = "p" /\ s[Len(s)] = "u"

\* s without one trailing '_gpu' or '_cpu'
WithoutSuffix(s) ==
    IF EndsInGpu(s) \/ EndsInCpu(s) THEN SubSeq(s, 1, Len(s) - 4) ELSE s

\* the number of elements of the set of indices idx that are at most i
Rank(idx, i) == Cardinality({ j \in idx : j <= i })

(***************************************************************************)
(* Properties.                                                             *)
(***************************************************************************)

\* C1: behind account_or_staff the view is invoked if and only if the requester
\* is staff or the directory holds an active allocation record named by the part
\* of 'account' before its first '_' that lists the requester; in every other
\* case the response is not-found and the view is not invoked.
C1_AccountOrStaffIff ==
    op = "account_or_staff" =>
        LET meta == request.request.META
            name == BeforeUnderscore(request.kwargs.account)
            entitled == meta.is_staff \/ Memberships(ldap, name, meta.username) # {}
        IN  /\ Invoked <=> entitled
            /\ ~entitled => (response = HttpResponseNotFound /\ ~Invoked)

\* C2: behind user_or_staff the view is invoked if and only if the requester's
\* username equals the 'username' keyword argument or the requester is staff;
\* otherwise the response is not-found and the view is not invoked.
C2_UserOrStaffIff ==
    op = "user_or_staff" =>
        LET meta == request.request.META
            permitted == meta.username = request.kwargs.username \/ meta.is_staff
        IN  /\ Invoked <=> permitted
            /\ ~permitted => (response = HttpResponseNotFound /\ ~Invoked)

C2_Witness ==
    /\ op = "user_or_staff"
    /\ ~request.request.META.is_staff
    /\ request.request.META.username # request.kwargs.username
    /\ response = HttpResponseNotFound

\* C3: a non-staff requester who is not entitled gets the same not-found
\* response, never a forbidden one, whether the named allocation does not
\* exist, is not active, or is active without the requester: the response to
\* the same request is the same under each directory that differs in what the
\* requester may not see; user_or_staff answers a denied requester not-found
\* without consulting the directory.
C3_DenialHidesExistence ==
    /\ (op = "account_or_staff" /\ ~request.request.META.is_staff) =>
        LET user == request.request.META.username
            name == BeforeUnderscore(request.kwargs.account)
        IN  Memberships(ldap, name, user) = {} =>
                /\ response = HttpResponseNotFound
                /\ response # HttpResponseForbidden
                /\ \A other \in Hidden(ldap, name, user) :
                       account_or_staff(other, request.request, request.args,
                                        request.kwargs).response = response
    /\ (op = "user_or_staff" /\ ~request.request.META.is_staff
            /\ request.request.META.username # request.kwargs.username) =>
        /\ response = HttpResponseNotFound
        /\ response # HttpResponseForbidden
        /\ queries = <<>>

C3_Witness ==
    /\ op = "account_or_staff"
    /\ ~request.request.META.is_staff
    /\ response = HttpResponseNotFound
    /\ \E i \in 1..Len(ldap) :
        /\ ldap[i].name = BeforeUnderscore(request.kwargs.account)
        /\ ldap[i].status = "active"
        /\ request.request.META.username \notin ldap[i].members
    /\ \E i \in 1..Len(ldap) :
        /\ ldap[i].name = BeforeUnderscore(request.kwargs.account)
        /\ ldap[i].status = "expired"
        /\ request.request.META.username \in ldap[i].members

\* C4: behind openstackproject_or_staff a non-staff requester who is a member
\* of the project gets the view's response; only requesters who are neither
\* staff nor project members get not-found.
C4_ProjectMemberAllowed ==
    op = "openstackproject_or_staff" =>
        LET meta == request.request.META
            member == Memberships(ldap, request.kwargs.project, meta.username) # {}
        IN  /\ (meta.is_staff \/ member) => Invoked
            /\ response = HttpResponseNotFound => (~meta.is_staff /\ ~member)

\* C5: behind staff the view is invoked if and only if the requester is staff;
\* a non-staff requester gets not-found without the view being invoked, even
\* when the requester's username equals the 'username' argument.
C5_StaffOnly ==
    op = "staff" =>
        LET meta == request.request.META
        IN  /\ Invoked <=> meta.is_staff
            /\ ~meta.is_staff => (response = HttpResponseNotFound /\ ~Invoked)

C5_Witness ==
    /\ op = "staff"
    /\ ~request.request.META.is_staff
    /\ request.request.META.username = request.kwargs.username
    /\ response = HttpResponseNotFound
    /\ ~Invoked

\* C6: compute_allocations_by_slurm_account returns the 'gpu' field of the first
\* aggregated allocation that has one when the account ends in '_gpu', the
\* 'cpu' field of the first that has one otherwise, and None when no aggregated
\* allocation carries the selected field; never a 'cpu' value for a '_gpu'
\* account nor a 'gpu' value for another account.
C6_FieldBySuffix ==
    op = "compute_allocations_by_slurm_account" =>
        LET gpu == EndsInGpu(request.account)
            field == IF gpu THEN "gpu" ELSE "cpu"
            aggregated == compute_allocation_by_account(ldap, queries[1].name).response.value
            having == { i \in 1..Len(aggregated) : field \in DOMAIN aggregated[i] }
            first == CHOOSE i \in having : \A j \in having : i <= j
        IN  /\ response.kind = "return"
            /\ having = {} => response.value = None
            /\ having # {} => response.value = Some(aggregated[first][field])
            /\ \A v \in CpuQuotas : gpu => response.value # Some(v)
            /\ \A v \in GpuQuotas : ~gpu => response.value # Some(v)

C6_Witness ==
    /\ op = "compute_allocations_by_slurm_account"
    /\ EndsInGpu(request.account)
    /\ Len(ldap) = 2
    /\ ldap[1].name = ldap[2].name
    /\ ldap[1].status = "active"
    /\ DOMAIN ldap[1].resources = {"cpu"}
    /\ "gpu" \in DOMAIN ldap[2].resources
    /\ response.value = Some(ldap[2].resources.gpu)

\* C7 as stated: a range query of the wrapper, query_prometheus or
\* query_prometheus_multiple, fails with an error instead of returning a value
\* when the backend returns zero series.
C7_RangeQueryFailsOnZeroSeries ==
    (/\ op \in {"query_prometheus", "query_prometheus_multiple"}
     /\ custom_query_range(prom, queries[1].query, queries[1].start_time,
                           queries[1].end_time, queries[1].step) = <<>>)
        => response.kind = "raise"

\* C7 amended: when the backend returns zero series, query_prometheus fails
\* with ValueError and query_prometheus_multiple returns an empty list.
C7_SingleSeriesFailsOnZeroSeries ==
    op \in {"query_prometheus", "query_prometheus_multiple"} =>
        LET q == custom_query_range(prom, queries[1].query, queries[1].start_time,
                                    queries[1].end_time, queries[1].step)
        IN  /\ (op = "query_prometheus" /\ q = <<>>) => response = Raised("ValueError")
            /\ (op = "query_prometheus_multiple" /\ q = <<>>) =>
                   response = [kind |-> "return", value |-> <<>>]

C7_Witness ==
    /\ op = "query_prometheus"
    /\ prom # <<>>
    /\ response = Raised("ValueError")

\* C8: compute_default_allocation_by_user(username) returns exactly the names of
\* the records that are active, list username as a member and have a name
\* starting with 'def-', in directory order with one entry per record.
C8_DefaultAllocations ==
    op = "compute_default_allocation_by_user" =>
        LET idx == { i \in 1..Len(ldap) :
                        /\ ldap[i].status = "active"
                        /\ request.username \in ldap[i].members
                        /\ Len(ldap[i].name) >= 4
                        /\ SubSeq(ldap[i].name, 1, 4) = <<"d", "e", "f", "-">> }
        IN  /\ response.kind = "return"
            /\ Len(response.value) = Cardinality(idx)
            /\ \A i \in idx : response.value[Rank(idx, i)] = ldap[i].name

C8_Witness ==
    /\ op = "compute_default_allocation_by_user"
    /\ Len(ldap) = 2
    /\ \A i \in 1..2 : ldap[i].status = "active" /\ request.username \in ldap[i].members
    /\ ~StartsWith(ldap[1].name, DefPrefix)
    /\ response.value = <<ldap[2].name>>

\* C9: the allocation name compute_allocations_by_slurm_account looks up is the
\* account name with exactly one trailing '_gpu' or '_cpu' removed, and the
\* account name unchanged when it has neither suffix.
C9_LookupNameIsAccountWithoutSuffix ==
    op = "compute_allocations_by_slurm_account" =>
        /\ Len(queries) = 1
        /\ queries[1].name = WithoutSuffix(request.account)

\* C10: a request through any of the four decorators ends either with the view
\* invoked exactly once with the request, positional and keyword arguments
\* unchanged and its response returned unchanged, or with a not-found response
\* and the view never invoked; never with an uncaught error; and a staff
\* requester passes account_or_staff without a directory lookup.
C10_ViewOrNotFound ==
    op \in Decorators =>
        /\ \/ /\ calls = <<request>>
              /\ response = FuncResponse(request.request, request.args, request.kwargs)
           \/ /\ calls = <<>>
              /\ response = HttpResponseNotFound
        /\ response.kind # "raise"
        /\ (op = "account_or_staff" /\ request.request.META.is_staff) => queries = <<>>

====
